---- MODULE Spec2Model ----
(***************************************************************************)
(* Solar-wind Bz plotters: bz-2.py (manual refresh, Bz joined with plasma  *)
(* speed, hover inspection) and bz.py (polling, Bz only).                  *)
(*                                                                         *)
(* Time is an integer count of seconds.  A number read from the feed is a  *)
(* rational <<n, d>> (d > 0), so that 1500000/3600 km/s is representable.  *)
(* A Python call that may raise is an operator returning a record whose    *)
(* field exc names the exception ("none" when it returns normally).        *)
(***************************************************************************)
EXTENDS Integers, Sequences, FiniteSets, TLC

VARIABLES
    program,            \* which script runs: "bz-2" or "bz" ("none": no script)
    phase,              \* "startup" (main before plt.show), "mainloop", "exited"
    stack,              \* call stack of the GUI thread: frames of refreshes
    queue,              \* events delivered to the toolkit, not yet dispatched
    current_plot_data,  \* bz-2.py global
    hover_annotation,   \* bz-2.py global: index into ax_annotations, 0 = None
    hover_marker,       \* bz-2.py global: index into ax_markers, 0 = None
    ax_annotations,     \* hover annotations that are children of ax
    ax_markers,         \* hover markers that are children of ax
    plotted,            \* the series drawn by the last ax.plot
    exc,                \* exception that left the last finished refresh
    redrawn,            \* the last finished refresh cleared and redrew ax
    shown_from,         \* locals of the last refresh that stored its series
    fetched,            \* what the fetches of the last refresh received
    hovered,            \* the event on_hover handled since the last refresh began
    fn, args, ret       \* a single call of one function: name, inputs, result

vars == <<program, phase, stack, queue, current_plot_data, hover_annotation,
          hover_marker, ax_annotations, ax_markers, plotted, exc, redrawn,
          shown_from, fetched, hovered, fn, args, ret>>
progVars == <<program, phase, stack, queue, current_plot_data, hover_annotation,
              hover_marker, ax_annotations, ax_markers, plotted, exc, redrawn,
              shown_from, fetched, hovered>>

\* ------------------------------------------------------------------ bounds
MaxRows == 2        \* data rows per payload (after the header row)
MaxQueue == 1       \* GUI events waiting in the toolkit's event queue
MaxArtists == 2     \* hover annotations kept on the axes at one time

\* --------------------------------------------------------- program constants
HOURS_TO_DISPLAY == 6
L1_TO_EARTH_KM == 1500000
BZ_COLUMN_INDEX == 3
TIME_COLUMN_INDEX == 0
SPEED_COLUMN_INDEX == 2
HOVER_THRESHOLD_SECONDS == 600

\* Python's None where a datetime is expected (all datetimes are >= 0)
None == -1
\* datetime.max on the model's time axis: measurement_time + timedelta(...)
\* raises OverflowError beyond it
DATETIME_MAX == 2000000000

Hour(h) == h * 3600
Abs(x) == IF x < 0 THEN -x ELSE x

\* ------------------------------------------------------------ JSON values
\* type: "null" | "bool" | "num" | "bigint" | "str_time" | "str_num" |
\*       "str_junk" | "array" | "object"
\*   num, str_num : the number x/y          bool     : x = 1 for true
\*   bigint       : an integer literal above the float range (1e400 as int)
\*   str_time     : "YYYY-MM-DD HH:MM:SS" for instant x followed by "." and
\*                  y fraction digits (y = 0: no fraction part at all)
\*   str_junk     : any other text, x characters long
\*   array        : items                   object   : x keys
JVal(type, x, y, items) == [type |-> type, x |-> x, y |-> y, items |-> items]
JNull == JVal("null", 0, 0, <<>>)
JNum(n, d) == JVal("num", n, d, <<>>)
JBigInt == JVal("bigint", 0, 0, <<>>)
JBool(b) == JVal("bool", b, 0, <<>>)
JTime(t, digits) == JVal("str_time", t, digits, <<>>)
JNumStr(n, d) == JVal("str_num", n, d, <<>>)
JJunk(len) == JVal("str_junk", len, 0, <<>>)
JArray(items) == JVal("array", 0, 0, items)
JObject(keys) == JVal("object", keys, 0, <<>>)

IsStr(v) == v.type \in {"str_time", "str_num", "str_junk"}

\* Results of Python expressions that may raise
Ok(v) == [exc |-> "none", val |-> v]
Raise(e) == [exc |-> e, val |-> 0]

\* bool(v)
Truthy(v) ==
    CASE v.type = "null" -> FALSE
      [] v.type \in {"bool", "num"} -> v.x # 0
      [] v.type = "str_junk" -> v.x > 0
      [] v.type = "array" -> Len(v.items) > 0
      [] v.type = "object" -> v.x > 0
      [] OTHER -> TRUE

\* len(v)
PyLen(v) ==
    CASE v.type = "array" -> Ok(Len(v.items))
      [] v.type = "object" -> Ok(v.x)
      [] v.type = "str_junk" -> Ok(v.x)
      [] v.type = "str_time" -> Ok(20 + v.y)
      [] v.type = "str_num" -> Ok(3)
      [] OTHER -> Raise("TypeError")

\* v[1:]
Tail1(s) == IF Len(s) = 0 THEN <<>> ELSE Tail(s)
SliceFrom1(v) ==
    CASE v.type = "array" -> Ok(Tail1(v.items))
      [] IsStr(v) -> LET n == PyLen(v).val
                     IN Ok([i \in 1..(IF n = 0 THEN 0 ELSE n - 1) |-> JJunk(1)])
      [] v.type = "object" -> Raise("TypeError")
      [] OTHER -> Raise("TypeError")

\* row[i]  (i counted from 0 as in the source)
Subscript(row, i) ==
    CASE row.type = "array" ->
            IF i < Len(row.items) THEN Ok(row.items[i + 1]) ELSE Raise("IndexError")
      [] IsStr(row) ->
            IF i < PyLen(row).val THEN Ok(JJunk(1)) ELSE Raise("IndexError")
      [] row.type = "object" -> Raise("KeyError")
      [] OTHER -> Raise("TypeError")

\* datetime.strptime(s, "%Y-%m-%d %H:%M:%S.%f"): %f takes 1 to 6 digits
strptime(s) ==
    IF ~IsStr(s) THEN Raise("TypeError")
    ELSE IF s.type = "str_time" /\ s.y \in 1..6 THEN Ok(s.x)
    ELSE Raise("ValueError")

\* float(v) for v that is not None
float(v) ==
    CASE v.type = "num" -> Ok(<<v.x, v.y>>)
      [] v.type = "bool" -> Ok(<<v.x, 1>>)
      [] v.type = "bigint" -> Raise("OverflowError")
      [] v.type = "str_num" -> Ok(<<v.x, v.y>>)
      [] IsStr(v) -> Raise("ValueError")
      [] OTHER -> Raise("TypeError")

\* The body of the per-row try block: "skip" (null value), "put" (an entry)
\* or the exception raised by the row.
ParseRow(row, col) ==
    LET time_str == Subscript(row, TIME_COLUMN_INDEX)
        dt == strptime(time_str.val)
        cell == Subscript(row, col)
        f == float(cell.val)
    IN  IF time_str.exc # "none" THEN [exc |-> time_str.exc, op |-> "none", dt |-> 0, v |-> <<0, 1>>]
        ELSE IF dt.exc # "none" THEN [exc |-> dt.exc, op |-> "none", dt |-> 0, v |-> <<0, 1>>]
        ELSE IF cell.exc # "none" THEN [exc |-> cell.exc, op |-> "none", dt |-> 0, v |-> <<0, 1>>]
        ELSE IF cell.val.type = "null" THEN [exc |-> "none", op |-> "skip", dt |-> dt.val, v |-> <<0, 1>>]
        ELSE IF f.exc # "none" THEN [exc |-> f.exc, op |-> "none", dt |-> 0, v |-> <<0, 1>>]
        ELSE [exc |-> "none", op |-> "put", dt |-> dt.val, v |-> f.val]

\* except (ValueError, TypeError, IndexError): pass
RowHandled(e) == e \in {"ValueError", "TypeError", "IndexError"}

\* ------------------------------------------------------- network responses
\* status: "ok" | "ConnectionError" (requests.get) | "HTTPError"
\* (raise_for_status) | "JSONDecodeError" (response.json)
Response(status, data) == [status |-> status, data |-> data]

\* Python dict keyed by datetime: a function on the set of its keys
EmptyDict == [k \in {} |-> <<0, 1>>]
DictPut(d, k, v) == [j \in (DOMAIN d) \cup {k} |-> IF j = k THEN v ELSE d[j]]

\* bz-2.py: the for loop over data[1:], filling the dict
RECURSIVE ParseRowsDict(_, _, _)
ParseRowsDict(rows, col, acc) ==
    IF rows = <<>> THEN Ok(acc)
    ELSE LET r == ParseRow(Head(rows), col)
         IN  IF r.exc # "none"
             THEN IF RowHandled(r.exc) THEN ParseRowsDict(Tail(rows), col, acc)
                  ELSE Raise(r.exc)
             ELSE IF r.op = "put"
                  THEN ParseRowsDict(Tail(rows), col, DictPut(acc, r.dt, r.v))
                  ELSE ParseRowsDict(Tail(rows), col, acc)

\* bz-2.py: body of fetch_mag_data / fetch_plasma_data for value column col;
\* the outer "except Exception" turns every exception into {}
FetchDict(resp, col) ==
    IF resp.status # "ok" THEN EmptyDict
    ELSE LET data == resp.data
             n == PyLen(data)
             rows == SliceFrom1(data)
             r == ParseRowsDict(rows.val, col, EmptyDict)
         IN  IF ~Truthy(data) THEN EmptyDict
             ELSE IF n.exc # "none" THEN EmptyDict
             ELSE IF n.val < 2 THEN EmptyDict
             ELSE IF rows.exc # "none" THEN EmptyDict
             ELSE IF r.exc # "none" THEN EmptyDict
             ELSE r.val

fetch_mag_data(resp) == FetchDict(resp, BZ_COLUMN_INDEX)
fetch_plasma_data(resp) == FetchDict(resp, SPEED_COLUMN_INDEX)

\* bz.py: the for loop over data[1:], appending to the two lists
RECURSIVE ParseRowsLists(_, _, _)
ParseRowsLists(rows, timestamps, bz_values) ==
    IF rows = <<>> THEN [exc |-> "none", times |-> timestamps, bz |-> bz_values]
    ELSE LET r == ParseRow(Head(rows), BZ_COLUMN_INDEX)
         IN  IF r.exc # "none"
             THEN IF RowHandled(r.exc)
                  THEN ParseRowsLists(Tail(rows), timestamps, bz_values)
                  ELSE [exc |-> r.exc, times |-> <<>>, bz |-> <<>>]
             ELSE IF r.op = "put"
                  THEN ParseRowsLists(Tail(rows), Append(timestamps, r.dt),
                                      Append(bz_values, r.v))
                  ELSE ParseRowsLists(Tail(rows), timestamps, bz_values)

\* bz.py: fetch_and_parse_data; only RequestException and JSONDecodeError
\* are caught, and only around the request itself
fetch_and_parse_data(resp) ==
    LET NoData == [exc |-> "none", times |-> <<>>, bz |-> <<>>]
        data == resp.data
        n == PyLen(data)
        rows == SliceFrom1(data)
    IN  IF resp.status # "ok" THEN NoData
        ELSE IF ~Truthy(data) THEN NoData
        ELSE IF n.exc # "none" THEN [exc |-> n.exc, times |-> <<>>, bz |-> <<>>]
        ELSE IF n.val < 2 THEN NoData
        ELSE IF rows.exc # "none" THEN [exc |-> rows.exc, times |-> <<>>, bz |-> <<>>]
        ELSE ParseRowsLists(rows.val, <<>>, <<>>)

\* ---------------------------------------------------------------- joiner
Min(S) == CHOOSE x \in S : \A y \in S : x <= y

\* sorted(S)
RECURSIVE sorted(_)
sorted(S) == IF S = {} THEN <<>> ELSE <<Min(S)>> \o sorted(S \ {Min(S)})

\* bz-2.py merge_data: returns <<timestamps, bz_values, speed_values>>
RECURSIVE MergeLoop(_, _, _, _, _, _)
MergeLoop(common_times, mag_dict, plasma_dict, timestamps, bz_values, speed_values) ==
    IF common_times = <<>> THEN <<timestamps, bz_values, speed_values>>
    ELSE LET dt == Head(common_times)
         IN  MergeLoop(Tail(common_times), mag_dict, plasma_dict,
                       Append(timestamps, dt),
                       Append(bz_values, mag_dict[dt]),
                       Append(speed_values, plasma_dict[dt]))

\* the join without the sort: keys come out in another order
RECURSIVE descending(_)
descending(S) ==
    IF S = {} THEN <<>>
    ELSE LET m == CHOOSE x \in S : \A y \in S : y <= x
         IN  <<m>> \o descending(S \ {m})
merge_data_unsorted(mag_dict, plasma_dict) ==
    LET common_times == descending((DOMAIN mag_dict) \cap (DOMAIN plasma_dict))
    IN  MergeLoop(common_times, mag_dict, plasma_dict, <<>>, <<>>, <<>>)

merge_data(mag_dict, plasma_dict) ==
    LET common_times == sorted((DOMAIN mag_dict) \cap (DOMAIN plasma_dict))
    IN  MergeLoop(common_times, mag_dict, plasma_dict, <<>>, <<>>, <<>>)

\* ------------------------------------------------------ arrival predictor
\* timedelta(seconds=a/b) for a, b > 0: the quotient rounded to the
\* resolution of the time axis, ties to even
RoundDiv(a, b) ==
    LET q == a \div b
        r == a % b
    IN  IF 2 * r < b THEN q
        ELSE IF 2 * r > b THEN q + 1
        ELSE IF q % 2 = 0 THEN q ELSE q + 1

\* bz-2.py calculate_arrival_time; speed_km_s = <<n, d>>
\* the arrival without the transit time
calculate_arrival_time_no_transit(measurement_time, speed_km_s) ==
    IF speed_km_s[1] <= 0 THEN Ok(None) ELSE Ok(measurement_time)

calculate_arrival_time(measurement_time, speed_km_s) ==
    IF speed_km_s[1] <= 0 THEN Ok(None)
    ELSE LET transit_time_seconds == RoundDiv(L1_TO_EARTH_KM * speed_km_s[2], speed_km_s[1])
         IN  IF transit_time_seconds > DATETIME_MAX - measurement_time
             THEN Raise("OverflowError")
             ELSE Ok(measurement_time + transit_time_seconds)

\* ---------------------------------------------------------- window filter
\* bz-2.py update_plot: the loop over zip(all_times, all_bz, all_speeds)
RECURSIVE FilterLoop(_, _, _, _, _)
FilterLoop(all_times, all_bz, all_speeds, cutoff_time, acc) ==
    IF all_times = <<>> \/ all_bz = <<>> \/ all_speeds = <<>> THEN acc
    ELSE LET t == Head(all_times)
             bz == Head(all_bz)
             speed == Head(all_speeds)
             arrival == calculate_arrival_time(t, speed)
             rest(a) == FilterLoop(Tail(all_times), Tail(all_bz), Tail(all_speeds),
                                   cutoff_time, a)
         IN  IF t >= cutoff_time
             THEN IF arrival.exc # "none"
                  THEN [acc EXCEPT !.exc = arrival.exc]
                  ELSE rest([exc |-> "none",
                             times |-> Append(acc.times, t),
                             bz |-> Append(acc.bz, bz),
                             speeds |-> Append(acc.speeds, speed),
                             arrivals |-> Append(acc.arrivals, arrival.val)])
             ELSE rest(acc)

EmptySeries == [times |-> <<>>, bz |-> <<>>, speeds |-> <<>>, arrivals |-> <<>>]

\* only the first two of the four assignments
StoreSeries_partial(data, kept) ==
    [data EXCEPT !.times = kept.times, !.bz = kept.bz]

\* bz-2.py update_plot: the four assignments to current_plot_data
StoreSeries(data, kept) ==
    [data EXCEPT !.times = kept.times, !.bz = kept.bz,
                 !.speeds = kept.speeds, !.arrivals = kept.arrivals]

\* the filter with a strict comparison: a sample at the cutoff is dropped
WindowFilter_strict(all_times, all_bz, all_speeds, cutoff_time) ==
    FilterLoop(all_times, all_bz, all_speeds, cutoff_time + 1,
               [exc |-> "none", times |-> <<>>, bz |-> <<>>, speeds |-> <<>>,
                arrivals |-> <<>>])

WindowFilter(all_times, all_bz, all_speeds, cutoff_time) ==
    FilterLoop(all_times, all_bz, all_speeds, cutoff_time,
               [exc |-> "none", times |-> <<>>, bz |-> <<>>, speeds |-> <<>>,
                arrivals |-> <<>>])

\* bz.py animate: the two list comprehensions
RECURSIVE TimesAfter(_, _)
TimesAfter(all_times, cutoff_time) ==
    IF all_times = <<>> THEN <<>>
    ELSE (IF Head(all_times) >= cutoff_time THEN <<Head(all_times)>> ELSE <<>>)
         \o TimesAfter(Tail(all_times), cutoff_time)

RECURSIVE BzAfter(_, _, _)
BzAfter(all_times, all_bz, cutoff_time) ==
    IF all_times = <<>> \/ all_bz = <<>> THEN <<>>
    ELSE (IF Head(all_times) >= cutoff_time THEN <<Head(all_bz)>> ELSE <<>>)
         \o BzAfter(Tail(all_times), Tail(all_bz), cutoff_time)

CutoffTime(now) == now - Hour(HOURS_TO_DISPLAY)

\* ======================================================= single-call inputs
JoinTimes == {Hour(1), Hour(2), Hour(3), Hour(7)}
BzValues == {<<-3, 1>>, <<5, 1>>}
SpeedValues == {<<400, 1>>, <<450, 1>>}
Clock == {Hour(8), Hour(9)}

Dicts(keys, vals) == UNION {[S -> vals] : S \in SUBSET keys}

\* rows of a payload: the value cell sits in both value columns
Filler == JNum(0, 1)
TimeCells == {JNull, JJunk(4), JTime(Hour(7), 0), JTime(Hour(7), 7),
              JTime(Hour(7), 3), JTime(Hour(7), 6), JTime(Hour(3), 3)}
ValueCells == {JNull, JNum(5, 1), JNum(-3, 1), JNumStr(450, 1), JJunk(3),
               JArray(<<>>), JBigInt}
FullRows == {JArray(<<t, Filler, v, v>>) : t \in TimeCells, v \in ValueCells}
ShortRows == {JArray(<<>>), JArray(<<JTime(Hour(7), 3)>>),
              JArray(<<JTime(Hour(3), 3), Filler, JNum(400, 1)>>)}
NonRows == {JObject(1), JNum(5, 1), JNull, JJunk(4)}
HeaderRow == JArray(<<JJunk(8), JJunk(6), JJunk(6), JJunk(6)>>)

SeqsUpTo(S, n) == UNION {[1..k -> S] : k \in 0..n}
Tables(rows) == {JArray(<<HeaderRow>> \o body) : body \in SeqsUpTo(rows, MaxRows)}
NonTables == {JNum(5, 1), JNum(0, 1), JNull, JBool(1), JObject(0), JObject(1),
              JObject(2), JJunk(4), JJunk(0), JArray(<<>>)}
FailedResponses == {Response(st, JNull) :
                        st \in {"ConnectionError", "HTTPError", "JSONDecodeError"}}
Responses(rows) == {Response("ok", d) : d \in Tables(rows) \cup NonTables}
                       \cup FailedResponses

ArrivalTimes == {0, Hour(7), DATETIME_MAX - 3600, DATETIME_MAX - 600, DATETIME_MAX}
ArrivalSpeeds == {<<-5, 1>>, <<0, 1>>, <<1250, 3>>, <<450, 1>>, <<400, 1>>,
                  <<7, 2>>, <<1, 3>>}

PureInit ==
    /\ program = "none" /\ phase = "none" /\ stack = <<>> /\ queue = <<>>
    /\ current_plot_data = EmptySeries
    /\ hover_annotation = 0 /\ hover_marker = 0
    /\ ax_annotations = <<>> /\ ax_markers = <<>>
    /\ plotted = EmptySeries /\ exc = "none" /\ redrawn = FALSE
    /\ shown_from = <<>> /\ fetched = <<"none", "none">>
    /\ hovered = [type |-> "none", inaxes |-> FALSE, xdata |-> None]
    /\ fn = "none" /\ args = <<>> /\ ret = <<>>

Call(f, a, r) ==
    /\ fn' = f /\ args' = a /\ ret' = r
    /\ UNCHANGED progVars

CallMergeData ==
    /\ fn = "none"
    /\ \E M \in Dicts(JoinTimes, BzValues), P \in Dicts(JoinTimes, SpeedValues) :
           Call("merge_data", <<M, P>>, merge_data(M, P))

CallFetchMagData ==
    /\ fn = "none"
    /\ \E resp \in Responses(FullRows \cup ShortRows \cup NonRows) :
           Call("fetch_mag_data", <<resp>>, fetch_mag_data(resp))

CallFetchPlasmaData ==
    /\ fn = "none"
    /\ \E resp \in Responses(FullRows \cup ShortRows \cup NonRows) :
           Call("fetch_plasma_data", <<resp>>, fetch_plasma_data(resp))

CallFetchAndParseData ==
    /\ fn = "none"
    /\ \E resp \in Responses(FullRows \cup ShortRows \cup NonRows) :
           Call("fetch_and_parse_data", <<resp>>, fetch_and_parse_data(resp))

CallCalculateArrivalTime ==
    /\ fn = "none"
    /\ \E t \in ArrivalTimes, speed \in ArrivalSpeeds :
           Call("calculate_arrival_time", <<t, speed>>, calculate_arrival_time(t, speed))

\* the window filter of update_plot on a joined series
CallWindowFilter ==
    /\ fn = "none"
    /\ \E M \in Dicts(JoinTimes, BzValues), P \in Dicts(JoinTimes, SpeedValues),
          now \in Clock :
           LET j == merge_data(M, P)
           IN  Call("WindowFilter", <<j[1], j[2], j[3], CutoffTime(now)>>,
                    WindowFilter(j[1], j[2], j[3], CutoffTime(now)))

\* the window filter of animate on the parsed lists (payload order)
CallAnimateFilter ==
    /\ fn = "none"
    /\ \E all_times \in SeqsUpTo(JoinTimes, MaxRows + 1), now \in Clock :
           LET all_bz == [i \in 1..Len(all_times) |-> <<i, 1>>]
           IN  Call("animate_filter", <<all_times, all_bz, CutoffTime(now)>>,
                    <<TimesAfter(all_times, CutoffTime(now)),
                      BzAfter(all_times, all_bz, CutoffTime(now))>>)

PureNext ==
    \/ CallCalculateArrivalTime
    \/ CallFetchAndParseData
    \/ CallFetchMagData
    \/ CallFetchPlasmaData
    \/ CallMergeData
    \/ CallWindowFilter
    \/ CallAnimateFilter

PureSpec == PureInit /\ [][PureNext]_vars

\* ================================================= the two running scripts
\* Feeds seen by the running scripts
T1 == Hour(2)
T2 == Hour(7)
T3 == Hour(7) + 600
TFar == DATETIME_MAX - 600
MagRow(t, v) == JArray(<<JTime(t, 3), Filler, Filler, v>>)
PlasmaRow(t, v) == JArray(<<JTime(t, 3), Filler, v, Filler>>)
Table(body) == Response("ok", JArray(<<HeaderRow>> \o body))

MagFeed ==
    { Response("ConnectionError", JNull),
      Response("ok", JNum(5, 1)),
      Table(<<>>),
      Table(<<MagRow(T1, JNum(5, 1)), MagRow(T2, JNumStr(-3, 1)), MagRow(T3, JNum(5, 1))>>),
      Table(<<MagRow(T2, JNum(-3, 1)), MagRow(T3, JNull), JArray(<<JTime(T1, 3)>>)>>),
      Table(<<MagRow(T3, JNum(5, 1)), MagRow(TFar, JNum(5, 1))>>) }

PlasmaFeed ==
    { Response("HTTPError", JNull),
      Response("JSONDecodeError", JNull),
      Response("ok", JObject(2)),
      Table(<<PlasmaRow(T1, JNum(450, 1)), PlasmaRow(T2, JNumStr(450, 1)),
              PlasmaRow(T3, JNum(400, 1))>>),
      Table(<<PlasmaRow(T2, JNum(0, 1)), PlasmaRow(T3, JNum(450, 1))>>),
      Table(<<PlasmaRow(T1, JNum(450, 1))>>),
      Table(<<PlasmaRow(Hour(5), JNum(450, 1))>>),
      Table(<<PlasmaRow(T3, JNum(400, 1)), PlasmaRow(TFar, JNum(450, 1))>>) }

\* bz.py polls the magnetic feed only
PollFeed ==
    MagFeed \cup { Response("JSONDecodeError", JNull),
                   Response("ok", JObject(2)),
                   Response("ok", JObject(1)),
                   Table(<<MagRow(T2, JNum(-3, 1)), MagRow(T1, JNum(5, 1)),
                           MagRow(T2, JNum(5, 1))>>) }

\* how a response looks to the fetch boundary
FetchKind(resp) ==
    IF resp.status # "ok" THEN "failed"
    ELSE IF resp.data.type # "array" \/ Len(resp.data.items) < 2 THEN "malformed"
    ELSE "table"

\* what each fetch can hand back to its caller, with the kind of response
\* it was computed from
MagReturns == {[kind |-> FetchKind(resp), result |-> fetch_mag_data(resp)] : resp \in MagFeed}
PlasmaReturns ==
    {[kind |-> FetchKind(resp), result |-> fetch_plasma_data(resp)] : resp \in PlasmaFeed}
PollReturns ==
    {[kind |-> FetchKind(resp), result |-> fetch_and_parse_data(resp)] : resp \in PollFeed}

\* pointer positions of motion events inside the axes (xdata, in seconds)
PointerXs == {T1 + 599, T2 + 300, T3 + 600}
Click == [type |-> "click", inaxes |-> FALSE, xdata |-> None]
Timer == [type |-> "timer", inaxes |-> FALSE, xdata |-> None]
NoEvent == [type |-> "none", inaxes |-> FALSE, xdata |-> None]
\* xdata and ydata are both None or both numbers; ydata plays no other part
Motion(inaxes, x) == [type |-> "motion", inaxes |-> inaxes, xdata |-> x]
MotionEvents == {Motion(TRUE, x) : x \in PointerXs}
                    \cup {Motion(TRUE, None), Motion(FALSE, None)}

Frame(f, pc, mag_dict) == [fn |-> f, pc |-> pc, mag_dict |-> mag_dict]

NoFetch == <<"none", "none">>

Init ==
    /\ program \in {"bz-2", "bz"}
    /\ phase = "startup" /\ stack = <<>> /\ queue = <<>>
    /\ current_plot_data = EmptySeries
    /\ hover_annotation = 0 /\ hover_marker = 0
    /\ ax_annotations = <<>> /\ ax_markers = <<>>
    /\ plotted = EmptySeries /\ exc = "none" /\ redrawn = FALSE
    /\ shown_from = <<>> /\ fetched = NoFetch /\ hovered = NoEvent
    /\ fn = "none" /\ args = <<>> /\ ret = <<>>

\* The GUI thread runs one callback at a time: the main loop takes the next
\* event only when no callback is on the stack (plt.show(), Tk mainloop)
\* a main loop that would dispatch events while a callback is running
GuiIdle_reentrant == TRUE

GuiIdle == stack = <<>>

\* ------------------------------------------------------------ bz-2.py
\* update_plot up to the blocking request of fetch_mag_data
UpdatePlotBegin ==
    /\ hover_annotation' = 0
    /\ hover_marker' = 0
    /\ stack' = <<Frame("update_plot", "fetch_mag", EmptyDict)>> \o stack
    /\ exc' = "none" /\ fetched' = NoFetch /\ hovered' = NoEvent
    /\ UNCHANGED <<program, current_plot_data, ax_annotations, ax_markers,
                   plotted, redrawn, shown_from, fn, args, ret>>

\* main(): mpl_connect, then the first update_plot()
MainCallsUpdatePlot ==
    /\ program = "bz-2" /\ phase = "startup" /\ stack = <<>>
    /\ UpdatePlotBegin
    /\ UNCHANGED <<phase, queue>>

\* fetch_mag_data returns; update_plot blocks in fetch_plasma_data
FetchMagReturns ==
    /\ program = "bz-2" /\ stack # <<>>
    /\ Head(stack).fn = "update_plot" /\ Head(stack).pc = "fetch_mag"
    /\ \E mag \in MagReturns :
        /\ stack' = <<Frame("update_plot", "fetch_plasma", mag.result)>> \o Tail(stack)
        /\ fetched' = <<mag.kind, "none">>
    /\ UNCHANGED <<program, phase, queue, current_plot_data, hover_annotation,
                   hover_marker, ax_annotations, ax_markers, plotted, exc, redrawn,
                   shown_from, hovered, fn, args, ret>>

\* where control goes when the callback on top of the stack ends: back to
\* the main loop, or, for the call made by main(), on to plt.show(); an
\* exception leaving main() ends the process
AfterReturn(e) ==
    /\ stack' = Tail(stack)
    /\ exc' = e
    /\ phase' = IF phase = "startup" /\ Len(stack) = 1
                THEN (IF e = "none" THEN "mainloop" ELSE "exited")
                ELSE phase

\* update_plot: "if not all_times" and "if not times_to_plot"
NoData(all_times) == all_times = <<>>

\* update_plot without its second early return
NoRecentData_never(times_to_plot) == FALSE

NoRecentData(times_to_plot) == times_to_plot = <<>>

\* fetch_plasma_data returns plasma.result and update_plot runs to its end,
\* reading the clock as now
UpdatePlotEnd(plasma, now) ==
    /\ program = "bz-2" /\ stack # <<>>
    /\ Head(stack).fn = "update_plot" /\ Head(stack).pc = "fetch_plasma"
    /\ LET mag_dict == Head(stack).mag_dict
           plasma_dict == plasma.result
           merged == merge_data(mag_dict, plasma_dict)
           all_times == merged[1]
           cutoff_time == CutoffTime(now)
           kept == WindowFilter(all_times, merged[2], merged[3], cutoff_time)
           quiet == UNCHANGED <<current_plot_data, ax_annotations, ax_markers,
                                plotted, shown_from>>
       IN  /\ fetched' = <<fetched[1], plasma.kind>>
           /\ IF NoData(all_times)
              THEN AfterReturn("none") /\ redrawn' = FALSE /\ quiet
              ELSE IF kept.exc # "none"
              THEN AfterReturn(kept.exc) /\ redrawn' = FALSE /\ quiet
              ELSE IF NoRecentData(kept.times)
              THEN AfterReturn("none") /\ redrawn' = FALSE /\ quiet
              ELSE /\ ax_annotations' = <<>>
                   /\ ax_markers' = <<>>
                   /\ plotted' = [EmptySeries EXCEPT !.times = kept.times,
                                                       !.bz = kept.bz]
                   /\ current_plot_data' = StoreSeries(current_plot_data, kept)
                   /\ shown_from' = <<mag_dict, plasma_dict, cutoff_time>>
                   /\ redrawn' = TRUE
                   /\ AfterReturn("none")
    /\ UNCHANGED <<program, queue, hover_annotation, hover_marker, hovered,
                   fn, args, ret>>

FetchPlasmaReturns ==
    \E plasma \in PlasmaReturns, now \in Clock : UpdatePlotEnd(plasma, now)

\* on_hover: the search for the closest sample; closest_idx = 0 is None,
\* and then min_dist is float('inf')
RECURSIVE ClosestLoop(_, _, _, _, _)
ClosestLoop(times, mouse_x, i, min_dist, closest_idx) ==
    IF i > Len(times) THEN [min_dist |-> min_dist, closest_idx |-> closest_idx]
    ELSE LET dist == Abs(times[i] - mouse_x)
         IN  IF closest_idx = 0 \/ dist < min_dist
             THEN ClosestLoop(times, mouse_x, i + 1, dist, i)
             ELSE ClosestLoop(times, mouse_x, i + 1, min_dist, closest_idx)

Closest(times, mouse_x) == ClosestLoop(times, mouse_x, 1, 0, 0)

\* on_hover: "if closest_idx is not None and min_dist_seconds < 600"
CloseEnough(c) == c.closest_idx # 0 /\ c.min_dist < HOVER_THRESHOLD_SECONDS

HideHover ==
    /\ ax_annotations' = IF hover_annotation # 0
                         THEN [ax_annotations EXCEPT ![hover_annotation].visible = FALSE]
                         ELSE ax_annotations
    /\ ax_markers' = IF hover_marker # 0
                     THEN [ax_markers EXCEPT ![hover_marker].visible = FALSE]
                     ELSE ax_markers
    /\ UNCHANGED <<hover_annotation, hover_marker>>

ShowHover(idx) ==
    LET t == current_plot_data.times[idx]
        bz == current_plot_data.bz[idx]
        speed == current_plot_data.speeds[idx]
        arrival == current_plot_data.arrivals[idx]
        text == <<t, bz, speed, arrival>>
    IN  /\ IF hover_annotation = 0
           THEN /\ ax_annotations' = Append(ax_annotations,
                        [visible |-> TRUE, xy |-> <<t, bz>>, text |-> text])
                /\ hover_annotation' = Len(ax_annotations) + 1
           ELSE /\ ax_annotations' = [ax_annotations EXCEPT ![hover_annotation] =
                        [visible |-> TRUE, xy |-> <<t, bz>>, text |-> text]]
                /\ UNCHANGED hover_annotation
        /\ IF hover_marker = 0
           THEN /\ ax_markers' = Append(ax_markers, [visible |-> TRUE, xy |-> <<t, bz>>])
                /\ hover_marker' = Len(ax_markers) + 1
           ELSE /\ ax_markers' = [ax_markers EXCEPT ![hover_marker] =
                        [visible |-> TRUE, xy |-> <<t, bz>>]]
                /\ UNCHANGED hover_marker

\* on_hover(event), the whole handler
on_hover(event) ==
    /\ IF ~event.inaxes THEN HideHover
       ELSE IF current_plot_data.times = <<>> THEN
            UNCHANGED <<hover_annotation, hover_marker, ax_annotations, ax_markers>>
       ELSE IF event.xdata = None THEN
            UNCHANGED <<hover_annotation, hover_marker, ax_annotations, ax_markers>>
       ELSE LET c == Closest(current_plot_data.times, event.xdata)
            IN  IF CloseEnough(c) THEN ShowHover(c.closest_idx) ELSE HideHover
    /\ Len(ax_annotations') <= MaxArtists
    /\ hovered' = event
    /\ UNCHANGED <<program, phase, stack, current_plot_data, plotted, exc, redrawn,
                   shown_from, fetched, fn, args, ret>>

\* on_button_click(event)
on_button_click ==
    /\ UpdatePlotBegin

\* ---------------------------------------------------------------- bz.py
\* animate up to the blocking request of fetch_and_parse_data
AnimateBegin ==
    /\ stack' = <<Frame("animate", "fetch", EmptyDict)>> \o stack
    /\ exc' = "none" /\ fetched' = NoFetch
    /\ UNCHANGED <<program, current_plot_data, hover_annotation, hover_marker,
                   ax_annotations, ax_markers, plotted, redrawn, shown_from,
                   hovered, fn, args, ret>>

\* main(): FuncAnimation and plt.show(); the first frame is drawn at once
MainStartsAnimation ==
    /\ program = "bz" /\ phase = "startup" /\ stack = <<>>
    /\ phase' = "mainloop"
    /\ AnimateBegin
    /\ UNCHANGED queue

\* fetch_and_parse_data returns (or raises) and animate runs to its end
FetchAndParseReturns ==
    /\ program = "bz" /\ stack # <<>>
    /\ Head(stack).fn = "animate" /\ Head(stack).pc = "fetch"
    /\ \E poll \in PollReturns, now \in Clock :
        LET r == poll.result
            cutoff_time == CutoffTime(now)
            times_to_plot == TimesAfter(r.times, cutoff_time)
            bz_to_plot == BzAfter(r.times, r.bz, cutoff_time)
        IN  /\ fetched' = <<poll.kind, "none">>
            /\ IF r.exc # "none"
               THEN AfterReturn(r.exc) /\ redrawn' = FALSE /\ UNCHANGED plotted
               ELSE IF r.times = <<>>
               THEN AfterReturn("none") /\ redrawn' = FALSE /\ UNCHANGED plotted
               ELSE IF times_to_plot = <<>>
               THEN AfterReturn("none") /\ redrawn' = FALSE /\ UNCHANGED plotted
               ELSE /\ plotted' = [EmptySeries EXCEPT !.times = times_to_plot,
                                                        !.bz = bz_to_plot]
                    /\ redrawn' = TRUE
                    /\ AfterReturn("none")
    /\ UNCHANGED <<program, queue, current_plot_data, hover_annotation, hover_marker,
                   ax_annotations, ax_markers, shown_from, hovered, fn, args, ret>>

\* ------------------------------------------------------- the event loop
\* the callback the toolkit runs for an event
Handle(event) ==
    IF event.type = "click" THEN on_button_click /\ UNCHANGED phase
    ELSE IF event.type = "timer" THEN AnimateBegin /\ UNCHANGED phase
    ELSE on_hover(event)

\* An event reaches the toolkit: its callback runs now if the GUI thread is
\* idle and nothing is queued before it; otherwise the event waits
Arrive(event) ==
    /\ phase = "mainloop"
    /\ IF GuiIdle /\ queue = <<>>
       THEN Handle(event) /\ UNCHANGED queue
       ELSE /\ Len(queue) < MaxQueue
            /\ queue' = Append(queue, event)
            /\ UNCHANGED <<program, phase, stack, current_plot_data, hover_annotation,
                           hover_marker, ax_annotations, ax_markers, plotted, exc,
                           redrawn, shown_from, fetched, hovered, fn, args, ret>>

UserClicksRefresh == program = "bz-2" /\ Arrive(Click)

UserMovesPointer == program = "bz-2" /\ \E event \in MotionEvents : Arrive(event)

PollTimerFires == program = "bz" /\ Arrive(Timer)

\* the main loop takes the oldest waiting event
DispatchQueued ==
    /\ phase = "mainloop" /\ GuiIdle /\ queue # <<>>
    /\ Handle(Head(queue))
    /\ queue' = Tail(queue)

Next ==
    \/ MainCallsUpdatePlot
    \/ FetchMagReturns
    \/ FetchPlasmaReturns
    \/ UserClicksRefresh
    \/ UserMovesPointer
    \/ MainStartsAnimation
    \/ FetchAndParseReturns
    \/ PollTimerFires
    \/ DispatchQueued

Spec == Init /\ [][Next]_vars

\* ============================================================ properties
Range(s) == {s[i] : i \in 1..Len(s)}

\* C1: merge_data(M, P) returns three sequences of equal length; times holds
\* exactly the keys common to M and P, once each, strictly ascending;
\* bz[i] = M[times[i]] and speeds[i] = P[times[i]]; with no common key the
\* three sequences are empty.
MergeIsSortedInnerJoin ==
    fn = "merge_data" =>
        LET M == args[1]
            P == args[2]
            times == ret[1]
            bz == ret[2]
            speeds == ret[3]
            common == (DOMAIN M) \cap (DOMAIN P)
        IN  /\ Len(bz) = Len(times) /\ Len(speeds) = Len(times)
            /\ Range(times) = common
            /\ \A i, j \in 1..Len(times) : i < j => times[i] < times[j]
            /\ \A i \in 1..Len(times) :
                   bz[i] = M[times[i]] /\ speeds[i] = P[times[i]]
            /\ (common = {} => ret = <<<<>>, <<>>, <<>>>>)

\* C1 witness: key sets {1h, 2h, 3h} and {2h, 3h, 7h} joined to <<2h, 3h>>
MergeJoinedOverlap ==
    /\ fn = "merge_data"
    /\ DOMAIN args[1] = {Hour(1), Hour(2), Hour(3)}
    /\ DOMAIN args[2] = {Hour(2), Hour(3), Hour(7)}
    /\ args[1][Hour(2)] # args[1][Hour(3)]
    /\ ret[1] = <<Hour(2), Hour(3)>>
    /\ Len(ret[2]) = 2 /\ Len(ret[3]) = 2

\* the rows the parser is expected to keep: an array long enough for the
\* value column, a timestamp in the fixed format, a numeric value
WellFormedRow(row, col) ==
    /\ row.type = "array"
    /\ Len(row.items) > col
    /\ row.items[TIME_COLUMN_INDEX + 1].type = "str_time"
    /\ row.items[TIME_COLUMN_INDEX + 1].y \in 1..6
    /\ row.items[col + 1].type \in {"num", "bigint", "str_num"}
RowTime(row) == row.items[TIME_COLUMN_INDEX + 1].x
RowValue(row, col) == <<row.items[col + 1].x, row.items[col + 1].y>>
IsTable(resp) ==
    /\ resp.status = "ok"
    /\ resp.data.type = "array"
    /\ \A i \in 1..Len(resp.data.items) : resp.data.items[i].type = "array"

\* C2: for a payload that is a sequence of rows, the header is discarded,
\* every well-formed row contributes one entry, every other row contributes
\* none, nothing is raised to the caller, and a bad row does not stop later
\* rows from being parsed.
ParserKeepsExactlyWellFormedRows ==
    /\ (fn \in {"fetch_mag_data", "fetch_plasma_data"} /\ IsTable(args[1])) =>
        LET col == IF fn = "fetch_mag_data" THEN BZ_COLUMN_INDEX ELSE SPEED_COLUMN_INDEX
            rows == Tail1(args[1].data.items)
            good == {i \in 1..Len(rows) : WellFormedRow(rows[i], col)}
        IN  /\ DOMAIN ret = {RowTime(rows[i]) : i \in good}
            /\ \A k \in DOMAIN ret :
                   \E i \in good : RowTime(rows[i]) = k /\ RowValue(rows[i], col) = ret[k]
    /\ (fn = "fetch_and_parse_data" /\ IsTable(args[1])) =>
        LET rows == Tail1(args[1].data.items)
            good == {i \in 1..Len(rows) : WellFormedRow(rows[i], BZ_COLUMN_INDEX)}
            nth(j) == CHOOSE i \in good : Cardinality({m \in good : m <= i}) = j
        IN  /\ ret.exc = "none"
            /\ Len(ret.times) = Cardinality(good)
            /\ Len(ret.bz) = Cardinality(good)
            /\ \A j \in 1..Cardinality(good) :
                   /\ ret.times[j] = RowTime(rows[nth(j)])
                   /\ ret.bz[j] = RowValue(rows[nth(j)], BZ_COLUMN_INDEX)

\* C3: calculate_arrival_time(t, speed) is None for every speed <= 0 and for
\* every speed > 0 is t + 1500000/speed seconds (to the resolution of the
\* time axis), raising nothing; a speed of 1500000/3600 gives t + 3600.
ArrivalDefinedIffSpeedPositive ==
    fn = "calculate_arrival_time" =>
        LET t == args[1]
            n == args[2][1]
            d == args[2][2]
        IN  /\ n <= 0 => ret = Ok(None)
            /\ n > 0 =>
                   /\ ret.exc = "none"
                   /\ ret.val # None
                   /\ 2 * Abs((ret.val - t) * n - L1_TO_EARTH_KM * d) <= n
            /\ (n = 1250 /\ d = 3) => (ret.exc = "none" /\ ret.val = t + 3600)

\* C4: the window filter keeps exactly the samples with timestamp >= cutoff
\* (one at the cutoff included), in their original order and still paired
\* with their own values; of a joined (ascending) series it keeps a suffix.
WindowFilterKeepsSamplesFromCutoff ==
    /\ fn = "WindowFilter" =>
        LET times == args[1]
            cutoff == args[4]
            n == Len(times)
            k == Cardinality({i \in 1..n : times[i] < cutoff})
        IN  /\ ret.exc = "none"
            /\ ret.times = SubSeq(times, k + 1, n)
            /\ ret.bz = SubSeq(args[2], k + 1, n)
            /\ ret.speeds = SubSeq(args[3], k + 1, n)
            /\ \A i \in 1..Len(ret.times) : ret.times[i] >= cutoff
    /\ fn = "animate_filter" =>
        LET times == args[1]
            cutoff == args[3]
            keep == {i \in 1..Len(times) : times[i] >= cutoff}
            nth(j) == CHOOSE i \in keep : Cardinality({m \in keep : m <= i}) = j
        IN  /\ Len(ret[1]) = Cardinality(keep)
            /\ Len(ret[2]) = Cardinality(keep)
            /\ \A j \in 1..Cardinality(keep) :
                   ret[1][j] = times[nth(j)] /\ ret[2][j] = args[2][nth(j)]

\* C4 witness: samples at now-7h, now-5h, now-1h with now = 8h: the last two
\* survive, in that order
WindowFilterDroppedOldSample ==
    /\ fn = "WindowFilter"
    /\ args[1] = <<Hour(1), Hour(3), Hour(7)>>
    /\ args[4] = Hour(2)
    /\ ret.times = <<Hour(3), Hour(7)>>

\* a response the fetch boundary cannot use: no response, or no table
Unusable(kind) == kind \in {"failed", "malformed"}

\* C5: when a fetch of a refresh met a network/transport failure or a payload
\* that is not a table of at least two rows, the fetch hands back an empty
\* result and the refresh returns normally, drawing nothing from it, in
\* bz-2.py (fetch_mag_data, fetch_plasma_data, update_plot) and in bz.py
\* (fetch_and_parse_data, animate).
FetchFailureNeverPropagates ==
    /\ (stack # <<>> /\ Head(stack).pc = "fetch_plasma" /\ Unusable(fetched[1]))
           => Head(stack).mag_dict = EmptyDict
    /\ (stack = <<>> /\ (Unusable(fetched[1]) \/ Unusable(fetched[2])))
           => (exc = "none" /\ ~redrawn)

\* the samples a refresh has to show: joined timestamps inside the window
InWindow(mag_dict, plasma_dict, cutoff_time) ==
    {t \in (DOMAIN mag_dict) \cap (DOMAIN plasma_dict) : t >= cutoff_time}

\* C6: a refresh of bz-2.py whose fetches leave nothing to show (a fetch
\* returned empty, the join is empty, or no joined sample is inside the
\* lookback window) leaves current_plot_data as it was, raises nothing and
\* does not redraw.
FailedRefreshLeavesSeries ==
    [][\A plasma \in PlasmaReturns, now \in Clock :
          (/\ UpdatePlotEnd(plasma, now)
           /\ InWindow(Head(stack).mag_dict, plasma.result, CutoffTime(now)) = {})
              => (/\ current_plot_data' = current_plot_data
                  /\ plotted' = plotted
                  /\ exc' = "none"
                  /\ ~redrawn')]_vars

\* C6 witness: a refresh ended normally without redrawing, after an earlier
\* refresh had stored a series, and the series is still there
FailedRefreshKeptSeries ==
    /\ program = "bz-2" /\ stack = <<>>
    /\ fetched[2] # "none" /\ exc = "none" /\ ~redrawn
    /\ current_plot_data.times # <<>>

\* C7: the four stored sequences have one length, times is strictly
\* ascending, and arrivals[i] is None iff speeds[i] <= 0 and otherwise is
\* times[i] + 1,500,000 / speeds[i] seconds (to the nearest unit of time).
StoredSeriesWellFormed ==
    LET d == current_plot_data
        n == Len(d.times)
    IN  /\ Len(d.bz) = n /\ Len(d.speeds) = n /\ Len(d.arrivals) = n
        /\ \A i, j \in 1..n : i < j => d.times[i] < d.times[j]
        /\ \A i \in 1..n :
               IF d.speeds[i][1] <= 0 THEN d.arrivals[i] = None
               ELSE /\ d.arrivals[i] # None
                    /\ 2 * Abs((d.arrivals[i] - d.times[i]) * d.speeds[i][1]
                               - L1_TO_EARTH_KM * d.speeds[i][2]) <= d.speeds[i][1]

\* C7 witness: on_hover ran over a stored series that has a sample without
\* an arrival (speed 0) and a sample with one
StoredSeriesWithAndWithoutArrival ==
    /\ hovered.type = "motion" /\ hovered.inaxes
    /\ \E i, j \in 1..Len(current_plot_data.times) :
           /\ current_plot_data.arrivals[i] = None
           /\ current_plot_data.arrivals[j] # None

\* C8: from the end of a successful refresh on, in every state a handler can
\* run in, the four stored sequences are exactly the samples joined from
\* that refresh's two fetched dicts at or after that refresh's cutoff.
StoredSeriesIsLastRefresh ==
    shown_from # <<>> =>
        LET mag_dict == shown_from[1]
            plasma_dict == shown_from[2]
            d == current_plot_data
            n == Len(d.times)
            W == InWindow(mag_dict, plasma_dict, shown_from[3])
        IN  /\ Len(d.bz) = n /\ Len(d.speeds) = n /\ Len(d.arrivals) = n
            /\ n = Cardinality(W)
            /\ Range(d.times) = W
            /\ \A i \in 1..n :
                   /\ d.bz[i] = mag_dict[d.times[i]]
                   /\ d.speeds[i] = plasma_dict[d.times[i]]
                   /\ (d.arrivals[i] = None) = (d.speeds[i][1] <= 0)

\* C8 witness: a refresh started from the main loop has just stored its
\* series while an event that arrived during it waits to be handled
RefreshStoredWithEventWaiting ==
    /\ program = "bz-2" /\ stack = <<>> /\ redrawn
    /\ queue # <<>> /\ Head(queue).type = "motion"
    /\ shown_from # <<>> /\ Len(current_plot_data.times) >= 2

\* what the axes show of the hover artists
VisibleAt(artists) == {a.xy : a \in {b \in Range(artists) : b.visible}}

HoverDist(i) == Abs(current_plot_data.times[i] - hovered.xdata)

\* a sample at minimal distance from the pointer, the lowest index on ties
Nearest ==
    CHOOSE i \in 1..Len(current_plot_data.times) :
        \A j \in 1..Len(current_plot_data.times) :
            HoverDist(i) < HoverDist(j) \/ (HoverDist(i) = HoverDist(j) /\ i <= j)

\* C9: after on_hover has handled a pointer move, if the pointer is inside
\* the axes over a non-empty series and the nearest sample (lowest index on
\* ties) is less than 600 s away, the axes show the annotation and the marker
\* at that sample and nowhere else; if no sample is that near, or the pointer
\* is outside the axes, no hover annotation and no hover marker is shown.
HoverShowsNearestOrNone ==
    hovered.type = "motion" =>
        IF ~hovered.inaxes
        THEN VisibleAt(ax_annotations) = {} /\ VisibleAt(ax_markers) = {}
        ELSE IF current_plot_data.times = <<>> \/ hovered.xdata = None THEN TRUE
        ELSE IF HoverDist(Nearest) < HOVER_THRESHOLD_SECONDS
        THEN LET at == <<current_plot_data.times[Nearest],
                         current_plot_data.bz[Nearest]>>
             IN  VisibleAt(ax_annotations) = {at} /\ VisibleAt(ax_markers) = {at}
        ELSE VisibleAt(ax_annotations) = {} /\ VisibleAt(ax_markers) = {}

\* C10: at most one refresh (update_plot or animate) is in progress in any
\* state, whatever triggers arrive and whenever.
RefreshesNeverOverlap ==
    Cardinality({i \in 1..Len(stack) : stack[i].fn \in {"update_plot", "animate"}}) <= 1

\* C10 witness: a trigger arrived while a refresh was blocked in a fetch and
\* waits in the queue
TriggerWaitsDuringRefresh ==
    /\ Len(stack) = 1 /\ Head(stack).pc \in {"fetch_mag", "fetch_plasma", "fetch"}
    /\ \E i \in 1..Len(queue) : queue[i].type \in {"click", "timer"}

\* no well-formed row holds a number too large for a float
Readable(rows, col) ==
    \A i \in 1..Len(rows) :
        WellFormedRow(rows[i], col) => rows[i].items[col + 1].type # "bigint"

\* the last well-formed row that carries timestamp t
LastRowAt(rows, col, t) ==
    LET at == {i \in 1..Len(rows) : WellFormedRow(rows[i], col) /\ RowTime(rows[i]) = t}
    IN  CHOOSE i \in at : \A j \in at : j <= i

\* C11: for a table payload, the parser's output holds exactly one entry for
\* every timestamp carried by a well-formed row, and its value is that of
\* the last well-formed row with that timestamp in payload order, in
\* fetch_mag_data, fetch_plasma_data and fetch_and_parse_data.
DuplicateTimestampsLastWins ==
    LET col == IF fn = "fetch_plasma_data" THEN SPEED_COLUMN_INDEX ELSE BZ_COLUMN_INDEX
        rows == Tail1(args[1].data.items)
        times == {RowTime(rows[i]) : i \in {j \in 1..Len(rows) : WellFormedRow(rows[j], col)}}
    IN  /\ (fn \in {"fetch_mag_data", "fetch_plasma_data"} /\ IsTable(args[1])
                /\ Readable(rows, col)) =>
               /\ DOMAIN ret = times
               /\ \A t \in times : ret[t] = RowValue(rows[LastRowAt(rows, col, t)], col)
        /\ (fn = "fetch_and_parse_data" /\ IsTable(args[1]) /\ Readable(rows, col)) =>
               /\ ret.exc = "none"
               /\ Range(ret.times) = times
               /\ \A t \in times :
                      LET entries == {j \in 1..Len(ret.times) : ret.times[j] = t}
                      IN  /\ Cardinality(entries) = 1
                          /\ \A j \in entries :
                                 ret.bz[j] = RowValue(rows[LastRowAt(rows, col, t)], col)

\* C12: whenever a handler can run (no refresh is in progress), the axes hold
\* at most one hover annotation and at most one hover marker, and an artist
\* that is on the axes is the one hover_annotation / hover_marker refers to;
\* so no refresh that returns early leaves an annotation on_hover cannot reach.
HoverArtistsTracked ==
    stack = <<>> =>
        /\ Len(ax_annotations) <= 1 /\ Len(ax_markers) <= 1
        /\ \A i \in 1..Len(ax_annotations) : hover_annotation = i
        /\ \A i \in 1..Len(ax_markers) : hover_marker = i

====
